---- MODULE Spec2Model ----
(***************************************************************************)
(* Transcripto (yt_app.py): a Streamlit script that is re-executed from    *)
(* top to bottom on every user interaction of a session.  One run parses   *)
(* the URL, fetches the transcript, summarizes it and renders the result;  *)
(* st.session_state is the only state that survives from run to run.       *)
(*                                                                         *)
(* Strings that the code only stores and shows are TLA+ strings; a URL,    *)
(* which the regular expression scans, is a sequence of one-character      *)
(* strings.  Emoji of the user-facing messages are left out of the texts.  *)
(***************************************************************************)
EXTENDS Integers, Sequences, FiniteSets, TLC

VARIABLES session_state, pc, pressed, url, screen, exception,
          runs, atStart, fetchCall, sumCall, fetchOks, sumCalls, summaryOf, log,
          purl, pn, pid

vars == <<session_state, pc, pressed, url, screen, exception,
          runs, atStart, fetchCall, sumCall, fetchOks, sumCalls, summaryOf, log,
          purl, pn, pid>>

sessionVars == <<session_state, pc, pressed, url, screen, exception,
                 runs, atStart, fetchCall, sumCall, fetchOks, sumCalls, summaryOf, log>>

parseVars == <<purl, pn, pid>>

(* Number of script runs (user interactions) explored in one session. *)
MaxRuns == 4

(* Number of chunks an explored URL string is assembled from. *)
MaxChunks == 4

None == "None"

(***************************************************************************)
(* get_video_id: re.search(r"(?:v=|youtu\.be\/|\/v\/)([0-9A-Za-z_-]{11})") *)
(***************************************************************************)
IdLen == 11

(* The value of `match.group(1) if match else None` when there is no match: Python's
   None, kept apart from every sequence of characters. *)
NoMatch == <<None>>

(* No call of get_video_id on the text yet. *)
Pending == <<"pending">>

Digits == {"0", "1", "2", "3", "4", "5", "6", "7", "8", "9"}

Upper == {"A", "B", "C", "D", "E", "F", "G", "H", "I", "J", "K", "L", "M",
          "N", "O", "P", "Q", "R", "S", "T", "U", "V", "W", "X", "Y", "Z"}

Lower == {"a", "b", "c", "d", "e", "f", "g", "h", "i", "j", "k", "l", "m",
          "n", "o", "p", "q", "r", "s", "t", "u", "v", "w", "x", "y", "z"}

IdChars == Digits \cup Upper \cup Lower \cup {"_", "-"}

(* Variant of Markers: the /v/ alternative is missing from the group. *)
Markers_NoSlashV == << <<"v", "=">>,
                       <<"y", "o", "u", "t", "u", ".", "b", "e", "/">> >>

(* The alternatives of the non-capturing group, in the order the regex tries them. *)
Markers == << <<"v", "=">>,
              <<"y", "o", "u", "t", "u", ".", "b", "e", "/">>,
              <<"/", "v", "/">> >>

(* s[i..j], empty when j < i *)
Slice(s, i, j) == SubSeq(s, i, j)

(* Does literal m match s at position i (1-based)? *)
LitAt(s, m, i) ==
    /\ i + Len(m) - 1 <= Len(s)
    /\ Slice(s, i, i + Len(m) - 1) = m

(* Does the capture group [0-9A-Za-z_-]{11} match at position i? *)
GroupAt(s, i) ==
    /\ i + IdLen - 1 <= Len(s)
    /\ \A k \in i .. (i + IdLen - 1) : s[k] \in IdChars

(* The regex tried at start position i: first alternative that matches there and is
   followed by the group; the result is group(1), or None when no alternative does. *)
RECURSIVE MatchAt(_, _, _)
MatchAt(s, i, a) ==
    IF a > Len(Markers) THEN NoMatch
    ELSE IF LitAt(s, Markers[a], i) /\ GroupAt(s, i + Len(Markers[a]))
         THEN Slice(s, i + Len(Markers[a]), i + Len(Markers[a]) + IdLen - 1)
         ELSE MatchAt(s, i, a + 1)

(* re.search: the leftmost start position at which the regex matches. *)
RECURSIVE Search(_, _)
Search(s, i) ==
    IF i > Len(s) THEN NoMatch
    ELSE IF MatchAt(s, i, 1) # NoMatch THEN MatchAt(s, i, 1)
         ELSE Search(s, i + 1)

get_video_id(u) == Search(u, 1)

(***************************************************************************)
(* fetch_transcript_text                                                   *)
(***************************************************************************)
(* What YouTubeTranscriptApi().fetch(video_id, languages=["en"]) can do: return the
   caption entries, or raise one of the library's two classified errors, or anything
   else.  Lines 63 and 65 build a new exception of the library's class from one
   message argument; the class is the library's, not the script's, so its constructor
   either accepts that call or rejects it with a TypeError (field ctor). *)
CtorOutcomes == {"accepts", "TypeError"}

FetchedLists == { << [text |-> "Hello"], [text |-> "world"] >>,
                  << [text |-> "Hi"] >> }

Causes == {"timed out", "quota exceeded"}

ApiOutcomes ==
    [kind : {"ok"}, fetched : FetchedLists, cause : {None}, ctor : {None}]
      \cup [kind : {"NoTranscriptFound", "TranscriptsDisabled"}, fetched : {<<>>},
            cause : {None}, ctor : CtorOutcomes]
      \cup [kind : {"Exception"}, fetched : {<<>>}, cause : Causes, ctor : {None}]

(* " ".join(texts) *)
RECURSIVE Join(_)
Join(texts) ==
    IF Len(texts) = 0 THEN ""
    ELSE IF Len(texts) = 1 THEN texts[1]
         ELSE texts[1] \o " " \o Join(Tail(texts))

(* The call's result: exc = None and the joined text in value, or the exception class
   raised to the caller in exc and str(exception) in value.  An exception raised inside
   an except clause is not caught by the clauses after it. *)
fetch_transcript_text(video_id, o) ==
    IF o.kind = "ok"
    THEN [exc |-> None, value |-> Join([i \in 1 .. Len(o.fetched) |-> o.fetched[i].text])]
    ELSE IF o.kind \in {"NoTranscriptFound", "TranscriptsDisabled"} /\ o.ctor = "TypeError"
    THEN [exc |-> "TypeError", value |-> "__init__() missing required positional arguments"]
    ELSE IF o.kind = "NoTranscriptFound"
    THEN [exc |-> "NoTranscriptFound", value |-> "No transcript found for this video."]
    ELSE IF o.kind = "TranscriptsDisabled"
    THEN [exc |-> "TranscriptsDisabled", value |-> "Transcripts are disabled for this video."]
    ELSE [exc |-> "Exception", value |-> "An unexpected error occurred: " \o o.cause]

(***************************************************************************)
(* summarize_with_openai                                                   *)
(***************************************************************************)
Summaries == {"summary A", "summary B"}

(* What client.chat.completions.create can do: answer with a completion, or raise. *)
Replies == [kind : {"ok"}, content : Summaries] \cup [kind : {"error"}, content : {None}]

(* No try/except in the function: an error of the call is raised to the caller. *)
summarize_with_openai(transcript, reply) ==
    IF reply.kind = "ok"
    THEN [exc |-> None, value |-> reply.content]
    ELSE [exc |-> "OpenAIError", value |-> None]

(***************************************************************************)
(* st.session_state: a dict; a key is present or not                       *)
(***************************************************************************)
EmptyDict == [k \in {} |-> None]

Has(d, k) == k \in DOMAIN d

SetItem(d, k, v) == [x \in DOMAIN d \cup {k} |-> IF x = k THEN v ELSE d[x]]

(* del d[k], used by the variants below only: the script never deletes a key. *)
DelItem(d, k) == [x \in DOMAIN d \ {k} |-> d[x]]

(***************************************************************************)
(* The widget values of a run                                              *)
(***************************************************************************)
EmptyUrl == <<>>

BadUrl == <<"n", "o", "t", " ", "a", " ", "u", "r", "l">>

GoodUrl == <<"y", "o", "u", "t", "u", ".", "b", "e", "/",
             "d", "Q", "w", "4", "w", "9", "W", "g", "X", "c", "Q">>

Urls == {EmptyUrl, BadUrl, GoodUrl}

(* Python truthiness of a str *)
Truthy(s) == Len(s) > 0

(* `not video_id`: None or the empty string *)
Falsy(v) == v = NoMatch \/ Len(v) = 0

(***************************************************************************)
(* The script, one action per block; pc is the block the run is at          *)
(***************************************************************************)
Show(w) == screen' = Append(screen, w)

(* An exception that leaves the script ends the run: Streamlit shows it and nothing
   below the raising line is executed; st.session_state keeps what was stored. *)
Abort(e) ==
    /\ exception' = e
    /\ pc' = "idle"

(* What a run records of its calls of the fetcher and of the summarizer. *)
NoFetch == [called |-> FALSE, outcome |-> None, exc |-> None, value |-> None]

NoSummarize == [called |-> FALSE, arg |-> None, exc |-> None, value |-> None]

(* Lines 69-83: a user interaction starts a run of the script from the top with the
   widget values of that interaction.  The button is True only in the run its click
   started; any other interaction (a download click, an edit of the text) reruns the
   script with the button False. *)
StartRun ==
    /\ pc = "idle"
    /\ runs < MaxRuns
    /\ \E p \in BOOLEAN, u \in Urls :
         /\ pressed' = p
         /\ url' = u
    /\ runs' = runs + 1
    /\ screen' = <<>>
    /\ exception' = None
    /\ atStart' = session_state
    /\ fetchCall' = NoFetch
    /\ sumCall' = NoSummarize
    /\ pc' = "handler"
    /\ UNCHANGED <<session_state, fetchOks, sumCalls, summaryOf, log, parseVars>>

(* Variant of HandlerStore: the result is stored whether or not the fetch raised. *)
HandlerStore_StoreAlways(ss, r) == SetItem(ss, "transcript", r.value)

(* Variant of HandlerStore: a failed fetch drops the transcript of the earlier one. *)
HandlerStore_DiscardOnFail(ss, r) ==
    IF r.exc = None THEN SetItem(ss, "transcript", r.value) ELSE DelItem(ss, "transcript")

(* Lines 92-98: what the try/except leaves in st.session_state for a result r of
   fetch_transcript_text. *)
HandlerStore(ss, r) ==
    IF r.exc = None THEN SetItem(ss, "transcript", r.value) ELSE ss

(* Lines 95-98: the st.error text for a raised r. *)
HandlerError(r) ==
    IF r.exc \in {"NoTranscriptFound", "TranscriptsDisabled"}
    THEN "No transcript found (captions disabled or missing)."
    ELSE "Error: " \o r.value

(* Lines 85-98: if st.button("Summarize Video") and url: ... *)
ButtonHandler ==
    /\ pc = "handler"
    /\ pc' = "summarize"
    /\ IF pressed /\ Truthy(url)
       THEN LET video_id == get_video_id(url) IN
            IF Falsy(video_id)
            THEN /\ Show([widget |-> "error", body |-> "Invalid YouTube URL."])
                 /\ UNCHANGED <<session_state, fetchCall, fetchOks, log>>
            ELSE \E o \in ApiOutcomes :
                   LET r == fetch_transcript_text(video_id, o) IN
                   /\ fetchCall' = [called |-> TRUE, outcome |-> o.kind, exc |-> r.exc, value |-> r.value]
                   /\ session_state' = HandlerStore(session_state, r)
                   /\ IF r.exc = None
                      THEN /\ fetchOks' = fetchOks + 1
                           /\ UNCHANGED <<screen, log>>
                      ELSE /\ Show([widget |-> "error", body |-> HandlerError(r)])
                           /\ log' = log \cup {<<o.kind, HandlerError(r)>>}
                           /\ UNCHANGED fetchOks
       ELSE UNCHANGED <<session_state, screen, fetchCall, fetchOks, log>>
    /\ UNCHANGED <<pressed, url, exception, runs, atStart, sumCall, sumCalls, summaryOf,
                   parseVars>>

(* Variant of SummarizeGuard: summarize only while no summary is stored. *)
SummarizeGuard_OnlyWithoutSummary(ss) == Has(ss, "transcript") /\ ~Has(ss, "summary")

(* Line 100 *)
SummarizeGuard(ss) == Has(ss, "transcript")

(* Lines 100-105: if "transcript" in st.session_state: summarize and store. *)
SummarizeBlock ==
    /\ pc = "summarize"
    /\ IF SummarizeGuard(session_state)
       THEN \E reply \in Replies :
              LET arg == session_state["transcript"]
                  r == summarize_with_openai(arg, reply)
              IN
              /\ Show([widget |-> "success", body |-> "Transcript fetched successfully!"])
              /\ sumCall' = [called |-> TRUE, arg |-> arg, exc |-> r.exc, value |-> r.value]
              /\ sumCalls' = sumCalls + 1
              /\ IF r.exc = None
                 THEN /\ session_state' = SetItem(session_state, "summary", r.value)
                      /\ summaryOf' = arg
                      /\ pc' = "results"
                      /\ UNCHANGED exception
                 ELSE /\ Abort(r.exc)
                      /\ UNCHANGED <<session_state, summaryOf>>
       ELSE /\ pc' = "results"
            /\ UNCHANGED <<session_state, screen, exception, sumCall, sumCalls, summaryOf>>
    /\ UNCHANGED <<pressed, url, runs, atStart, fetchCall, fetchOks, log, parseVars>>

(* Line 108 *)
ResultsGuard(ss) == Has(ss, "summary") /\ Has(ss, "transcript")

(* Lines 107-129: the two tabs with their download buttons. *)
ShowResults ==
    /\ pc = "results"
    /\ pc' = "expander"
    /\ IF ResultsGuard(session_state)
       THEN Show([widget |-> "tabs",
                  summary |-> session_state["summary"],
                  transcript |-> session_state["transcript"]])
       ELSE UNCHANGED screen
    /\ UNCHANGED <<session_state, pressed, url, exception, runs, atStart,
                   fetchCall, sumCall, fetchOks, sumCalls, summaryOf, log, parseVars>>

(* Line 131 *)
ExpanderGuard(ss) == Has(ss, "transcript")

(* Lines 131-149: the expander and the two download buttons under it; line 146 reads
   st.session_state["summary"] under the guard of line 131 only, and a dict read of a
   missing key raises KeyError. *)
TranscriptExpander ==
    /\ pc = "expander"
    /\ IF ExpanderGuard(session_state)
       THEN IF Has(session_state, "summary")
            THEN /\ Show([widget |-> "expander",
                          summary |-> session_state["summary"],
                          transcript |-> session_state["transcript"]])
                 /\ pc' = "footer"
                 /\ UNCHANGED exception
            ELSE /\ Show([widget |-> "expander",
                          summary |-> None,
                          transcript |-> session_state["transcript"]])
                 /\ Abort("KeyError")
       ELSE /\ pc' = "footer"
            /\ UNCHANGED <<screen, exception>>
    /\ UNCHANGED <<session_state, pressed, url, runs, atStart,
                   fetchCall, sumCall, fetchOks, sumCalls, summaryOf, log, parseVars>>

(* Lines 151-152: the footer; the run is over. *)
Footer ==
    /\ pc = "footer"
    /\ pc' = "idle"
    /\ Show([widget |-> "footer"])
    /\ UNCHANGED <<session_state, pressed, url, exception, runs, atStart,
                   fetchCall, sumCall, fetchOks, sumCalls, summaryOf, log, parseVars>>

Init ==
    /\ session_state = EmptyDict
    /\ pc = "idle"
    /\ pressed = FALSE
    /\ url = EmptyUrl
    /\ screen = <<>>
    /\ exception = None
    /\ runs = 0
    /\ atStart = EmptyDict
    /\ fetchCall = NoFetch
    /\ sumCall = NoSummarize
    /\ summaryOf = None
    /\ fetchOks = 0
    /\ sumCalls = 0
    /\ log = {}
    /\ purl = <<>>
    /\ pn = 0
    /\ pid = Pending

Next ==
    \/ StartRun
    \/ ButtonHandler
    \/ SummarizeBlock
    \/ ShowResults
    \/ TranscriptExpander
    \/ Footer

Spec == Init /\ [][Next]_vars

(***************************************************************************)
(* get_video_id on its own: the strings a user can put into the text input *)
(***************************************************************************)
TokA == <<"d", "Q", "w", "4", "w", "9", "W", "g", "X", "c", "Q">>

TokB == <<"0", "_", "z", "Z", "-", "9", "a", "A", "v", "y", "k">>

Tok5 == <<"a", "_", "-", "Z", "7">>

Chunks == { <<"v", "=">>,
            <<"y", "o", "u", "t", "u", ".", "b", "e", "/">>,
            <<"/", "v", "/">>,
            TokA, TokB, Tok5,
            <<"&">> }

(* Line 83: the user extends the text of the input. *)
TypeChunk ==
    /\ pid = Pending
    /\ pn < MaxChunks
    /\ \E c \in Chunks : purl' = purl \o c
    /\ pn' = pn + 1
    /\ UNCHANGED <<pid, sessionVars>>

(* Line 86: video_id = get_video_id(url) *)
Parse ==
    /\ pid = Pending
    /\ pid' = get_video_id(purl)
    /\ UNCHANGED <<purl, pn, sessionVars>>

NextParse ==
    \/ TypeChunk
    \/ Parse

SpecParse == Init /\ [][NextParse]_vars

(***************************************************************************)
(* Properties                                                              *)
(***************************************************************************)
RunEnded == pc = "idle" /\ runs > 0

Submitted == pressed /\ Truthy(url)

FetchSucceeded == fetchCall.called /\ fetchCall.exc = None

FetchFailed == fetchCall.called /\ fetchCall.exc # None

SummarizerFailed == sumCall.called /\ sumCall.exc # None

Rendered(w) == \E i \in 1 .. Len(screen) : screen[i].widget = w

ShownError(msg) ==
    \E i \in 1 .. Len(screen) : screen[i].widget = "error" /\ screen[i].body = msg

(* C1: at the end of every run, the Summarizer was invoked in that run exactly when a
   fetch succeeded in that run, and over the session it has been invoked as many times
   as fetches have succeeded. *)
C1_OncePerSuccessfulFetch ==
    RunEnded =>
      /\ sumCall.called <=> FetchSucceeded
      /\ sumCalls = fetchOks

(* C2: whatever the session held before, when the fetch of a submission succeeds and
   the Summarizer then fails, the run ends with the new transcript stored and no
   summary stored. *)
C2_TranscriptOnlyAfterSummarizerFailure ==
    (RunEnded /\ FetchSucceeded /\ SummarizerFailed) =>
      /\ Has(session_state, "transcript")
      /\ session_state["transcript"] = fetchCall.value
      /\ ~Has(session_state, "summary")

(* C3: a failure of the Summarizer does not leave the summarize step: the run raises
   nothing and still renders the transcript expander with the transcript download. *)
C3_SummarizerFailureNonFatal ==
    (RunEnded /\ SummarizerFailed) =>
      /\ exception = None
      /\ Rendered("expander")

(* C4: a submission whose URL is invalid or whose fetch fails ends with neither the
   earlier transcript nor the earlier summary stored or rendered. *)
C4_SubmissionDiscardsPrior ==
    (RunEnded /\ Submitted /\ (get_video_id(url) = NoMatch \/ FetchFailed)) =>
      /\ ~Has(session_state, "transcript")
      /\ ~Has(session_state, "summary")
      /\ ~Rendered("tabs")
      /\ ~Rendered("expander")

(* C5: in a session with no successful fetch so far, from the handler on, a run whose
   fetch failed has shown an error, has no transcript key, has not invoked the
   Summarizer and has no summary key. *)
C5_FailedFetchLeavesTranscriptUnset ==
    (runs > 0 /\ pc # "handler" /\ FetchFailed /\ fetchOks = 0) =>
      /\ Rendered("error")
      /\ ~Has(session_state, "transcript")
      /\ ~sumCall.called
      /\ ~Has(session_state, "summary")

C5_Witness ==
    /\ RunEnded
    /\ Submitted
    /\ fetchCall.called
    /\ fetchCall.outcome = "TranscriptsDisabled"
    /\ fetchOks = 0
    /\ runs >= 2

(* C6: fetches that failed with different classes have surfaced different outcomes
   to the user, and the outcome of the third class carries the cause. *)
C6_FailureClassesDistinct ==
    /\ \A a \in log, b \in log : a[1] # b[1] => a[2] # b[2]
    /\ (FetchFailed /\ fetchCall.outcome = "Exception") =>
          \E c \in Causes : ShownError("Error: An unexpected error occurred: " \o c)

(* C7: a submission whose URL yields no video ID shows the invalid-URL message, calls
   neither the fetcher nor the Summarizer and leaves the session keys as they were. *)
C7_InvalidUrlNoFurtherAction ==
    (RunEnded /\ Submitted /\ get_video_id(url) = NoMatch) =>
      /\ ShownError("Invalid YouTube URL.")
      /\ ~fetchCall.called
      /\ ~sumCall.called
      /\ session_state = atStart

(* C8: summary is stored only if transcript is stored, and the stored summary is the
   result of a Summarizer call that was given a stored transcript. *)
C8_SummaryOnlyWithTranscript ==
    Has(session_state, "summary") =>
      /\ Has(session_state, "transcript")
      /\ summaryOf # None

C8_Witness ==
    /\ Has(session_state, "summary")
    /\ Has(session_state, "transcript")
    /\ runs >= 2
    /\ FetchFailed

(* The markers and the alphabet as the property names them. *)
ClaimMarkers == { <<"v", "=">>,
                  <<"y", "o", "u", "t", "u", ".", "b", "e", "/">>,
                  <<"/", "v", "/">> }

ClaimAlphabet ==
    {"0", "1", "2", "3", "4", "5", "6", "7", "8", "9", "_", "-",
     "a", "b", "c", "d", "e", "f", "g", "h", "i", "j", "k", "l", "m",
     "n", "o", "p", "q", "r", "s", "t", "u", "v", "w", "x", "y", "z",
     "A", "B", "C", "D", "E", "F", "G", "H", "I", "J", "K", "L", "M",
     "N", "O", "P", "Q", "R", "S", "T", "U", "V", "W", "X", "Y", "Z"}

(* The positions right after an occurrence of a marker. *)
AfterMarker(s) ==
    { i \in 1 .. Len(s) + 1 :
        \E m \in ClaimMarkers :
          /\ i - Len(m) >= 1
          /\ SubSeq(s, i - Len(m), i - 1) = m }

(* The positions where a marked 11-character token starts. *)
TokenStarts(s) ==
    { i \in AfterMarker(s) :
        /\ i + 10 <= Len(s)
        /\ \A k \in i .. i + 10 : s[k] \in ClaimAlphabet }

FirstToken(s) ==
    LET i == CHOOSE j \in TokenStarts(s) : \A k \in TokenStarts(s) : j <= k
    IN SubSeq(s, i, i + 10)

(* C9: a string with an 11-character token of [0-9A-Za-z_-] right after v=, youtu.be/
   or /v/ yields the first such token; a string with none of the markers yields None;
   and a result other than None is 11 characters of that alphabet. *)
C9_GetVideoId ==
    pid # Pending =>
      /\ TokenStarts(purl) # {} => pid = FirstToken(purl)
      /\ AfterMarker(purl) = {} => pid = NoMatch
      /\ pid # NoMatch => (Len(pid) = 11 /\ \A k \in 1 .. 11 : pid[k] \in ClaimAlphabet)

C9_Witness ==
    /\ pid # Pending
    /\ Cardinality(TokenStarts(purl)) >= 2
    /\ pid = TokB
    /\ 1 \notin AfterMarker(purl)

(* C10: whenever the tabs or the expander are on the screen, the Summarizer was called
   in this run and returned, the transcript shown is the one it was given, the summary
   shown is what it returned, and no read of the summary key has raised KeyError. *)
C10_ShownSummaryIsOfShownTranscript ==
    /\ exception # "KeyError"
    /\ \A i \in 1 .. Len(screen) :
         screen[i].widget \in {"tabs", "expander"} =>
           /\ sumCall.called
           /\ sumCall.exc = None
           /\ screen[i].transcript = sumCall.arg
           /\ screen[i].summary = sumCall.value

C10_Witness ==
    /\ RunEnded
    /\ Rendered("tabs")
    /\ Rendered("expander")
    /\ Has(atStart, "summary")
    /\ atStart["transcript"] # session_state["transcript"]
    /\ atStart["summary"] # session_state["summary"]

====
